---- MODULE Spec2Model ----
(***************************************************************************)
(* Motion extraction: a capture thread, a decode thread and the render     *)
(* loop of main, joined by two bounded channels and two one-slot           *)
(* cancellation channels (src/src/main.rs).                                *)
(***************************************************************************)
EXTENDS Integers, Sequences, FiniteSets, TLC

\* ------------------------------------------------------------ constants
CHANNEL_OFFSET == 4
BUFFER_SIZE == 2 + 2 * CHANNEL_OFFSET

\* sync_channel(4): the two hand-off channels.
QUEUE_CAP == 4
\* sync_channel(1): the two cancellation channels.
CLOSE_CAP == 1

\* The camera delivers at most MaxFrames frames, then fails.
MaxFrames == 10

VARIABLES
    WIDTH,        \* const WIDTH, as the run has it
    HEIGHT,       \* const HEIGHT, as the run has it
    cap_pc,       \* capture thread: "poll", "capture", "send", "exit"
    cap_frame,    \* the Frame the capture thread holds (0: none)
    cap_exit,     \* why the capture loop ended
    captured,     \* frames the camera has delivered
    dec_pc,       \* decode thread: "poll", "recv", "decode", "send", "exit"
    dec_frame,    \* the Frame the decode thread holds (0: none)
    dec_pixels,   \* the Vec<u32> the decode thread is sending
    dec_exit,     \* why the decode loop ended
    q_cap,        \* channel tx_cap -> rx_cap
    q_dec,        \* channel tx_dec -> rx_dec
    close_cap,    \* messages in channel tx_close_cap -> rx_close_cap
    close_dec,    \* messages in channel tx_close_dec -> rx_close_dec
    live,         \* channel endpoints owned by the threads, not yet dropped
    main_pc,      \* main: "top", "window", "recv", "push", "diff", "update", "close_cap",
                  \*       "close_dec", "join_cap", "join_dec", "returned", "panicked"
    main_panic,   \* the expect or index that panicked in main
    curr,         \* the buffer main received
    back_buffer,  \* VecDeque of decoded frames
    diff_buf,     \* the buffer shown
    pushes        \* completed push_back calls (history)

vars == <<WIDTH, HEIGHT, cap_pc, cap_frame, cap_exit, captured, dec_pc, dec_frame, dec_pixels,
          dec_exit, q_cap, q_dec, close_cap, close_dec, live, main_pc, main_panic,
          curr, back_buffer, diff_buf, pushes>>

capVars == <<cap_pc, cap_frame, cap_exit, captured>>
decVars == <<dec_pc, dec_frame, dec_pixels, dec_exit>>
dimVars == <<WIDTH, HEIGHT>>
mainVars == <<main_pc, main_panic, curr, back_buffer, diff_buf, pushes>>

\* ------------------------------------------------------------ arithmetic
\* usize::saturating_sub, u32::saturating_sub
\* a subtraction that wraps in the 8 bits of a channel
WrappingSub(a, b) == (a - b) % 256

SaturatingSub(a, b) == IF a >= b THEN a - b ELSE 0

RECURSIVE Pow2(_)
Pow2(n) == IF n = 0 THEN 1 ELSE 2 * Pow2(n - 1)

\* u32 >> n, u32 << n (the bits shifted past bit 31 are lost), u32 & 0xFF
Shr(x, n) == x \div Pow2(n)
Shl(x, n) == (x % Pow2(32 - n)) * Pow2(n)
AndFF(x) == x % 256

\* u32 | u32
RECURSIVE BitOr(_, _)
BitOr(a, b) ==
    IF a = 0 THEN b
    ELSE IF b = 0 THEN a
    ELSE (IF a % 2 = 1 \/ b % 2 = 1 THEN 1 ELSE 0) + 2 * BitOr(a \div 2, b \div 2)

\* (r << 16) | (g << 8) | b
Pack(r, g, b) == BitOr(BitOr(Shl(r, 16), Shl(g, 8)), b)

Zeros(n) == [i \in 1..n |-> 0]

\* ------------------------------------------------------------ frames
\* A decoded frame: the Vec<u32> and the number of the capture it came from
\* (0 for the frames the history starts with).
NoFrame == [id |-> 0 - 1, px |-> <<>>]
ZeroFrame(n) == [id |-> 0, px |-> Zeros(n)]

\* ------------------------------------------------------------ decode
\* row = (idx + WIDTH - 1) / WIDTH + 1
DecodeRow(idx, w) == (idx + w - 1) \div w + 1

\* index = row * WIDTH - (idx % WIDTH) - 1
DecodeIndex(idx, w) == DecodeRow(idx, w) * w - (idx % w) - 1

\* pixels.chunks_exact(3): the idx-th chunk (idx from 0)
Chunk(pixels, idx) == SubSeq(pixels, 3 * idx + 1, 3 * idx + 3)
NumChunks(pixels) == Len(pixels) \div 3

\* One iteration of the loop over the chunks. st.buf is decode_buf_u32; st.oob
\* records an index past its end (a panic in the program).
DecodeStep(st, idx, chunk, w) ==
    LET row == DecodeRow(idx, w)
        grown == IF Len(st.buf) < row * w THEN st.buf \o Zeros(w) ELSE st.buf
        index == DecodeIndex(idx, w)
    IN  IF st.oob \/ index >= Len(grown)
        THEN [buf |-> grown, oob |-> TRUE]
        ELSE [buf |-> [grown EXCEPT ![index + 1] = Pack(chunk[1], chunk[2], chunk[3])],
              oob |-> FALSE]

RECURSIVE DecodeFrom(_, _, _, _)
DecodeFrom(st, idx, pixels, w) ==
    IF idx >= NumChunks(pixels) THEN st
    ELSE DecodeFrom(DecodeStep(st, idx, Chunk(pixels, idx), w), idx + 1, pixels, w)

\* decode_buf_u32 after the loop, from the cleared buffer
DecodeU32(pixels, w) == DecodeFrom([buf |-> <<>>, oob |-> FALSE], 0, pixels, w)

\* ------------------------------------------------------------ history and diff
\* back_buffer.push_back(curr); if back_buffer.len() > BUFFER_SIZE { pop_front }
\* push_back with no pop_front
PushBackGrow(ring, f) == Append(ring, f)

PushBack(ring, f) ==
    LET pushed == Append(ring, f)
    IN  IF Len(pushed) > BUFFER_SIZE THEN Tail(pushed) ELSE pushed

\* 0-based indexes into back_buffer
IndexNewest(length) == length - 1
IndexR(length) == SaturatingSub(length, 2)
IndexGShort(length) == SaturatingSub(length, 1 + CHANNEL_OFFSET)
IndexG(length) == SaturatingSub(length, 2 + CHANNEL_OFFSET)
IndexBNewest(length) == length - 1
IndexB(length) == SaturatingSub(length, 2 + CHANNEL_OFFSET + CHANNEL_OFFSET)

At(ring, index) == ring[index + 1]

\* one pixel of the closure given to for_each
DiffPixel(p, pr, pg, pb) ==
    LET dr == SaturatingSub(AndFF(Shr(p, 16)), AndFF(Shr(pr, 16)))
        dg == SaturatingSub(AndFF(Shr(p, 8)), AndFF(Shr(pg, 8)))
        db == SaturatingSub(AndFF(p), AndFF(pb))
    IN  BitOr(BitOr(Shl(dr, 16), Shl(dg, 8)), db)

\* diff_buf after the parallel loop
DiffBuf(diff, ring) ==
    LET length == Len(ring)
        newest == At(ring, IndexNewest(length)).px
        frame_r == At(ring, IndexR(length)).px
        frame_g == At(ring, IndexG(length)).px
        frame_b == At(ring, IndexB(length)).px
    IN  [i \in 1..Len(diff) |-> DiffPixel(newest[i], frame_r[i], frame_g[i], frame_b[i])]

\* newest[i], frame_r[i], frame_g[i] or frame_b[i] is past the end of its Vec
DiffOutOfBounds(diff, ring) ==
    LET length == Len(ring)
    IN  \/ length = 0
        \/ \E index \in {IndexNewest(length), IndexR(length), IndexG(length), IndexB(length)} :
               Len(At(ring, index).px) < Len(diff)

\* ------------------------------------------------------------ the pipeline
\* Capture numbers below SizeStride are JPEGs of WIDTH x HEIGHT pixels, what the
\* camera is configured for; the numbers from SizeStride on are JPEGs of another
\* size: a pixel less, a pixel more, a row less, a row more.
SizeStride == 16
ImageLen(id) ==
    LET kind == id \div SizeStride
    IN  CASE kind = 0 -> WIDTH * HEIGHT
          [] kind = 1 -> WIDTH * HEIGHT - 1
          [] kind = 2 -> WIDTH * HEIGHT + 1
          [] kind = 3 -> WIDTH * (HEIGHT - 1)
          [] OTHER -> WIDTH * (HEIGHT + 1)

\* The interleaved RGB bytes the JPEG of capture number id decodes to.
JpegPixels(id) ==
    [k \in 1..(3 * ImageLen(id)) |->
        (id * 40 + ((k - 1) % 3) * 85 + ((k - 1) \div 3) * 7) % 256]

\* The frame decode_thread makes of capture number id.
DecodedFrame(id, w) == [id |-> id, px |-> DecodeU32(JpegPixels(id), w).buf]

\* decoder.decode(): an error, or the bytes of the image
JpegDecode(id) == {[ok |-> FALSE, pixels |-> <<>>], [ok |-> TRUE, pixels |-> JpegPixels(id)]}

\* cam.capture(): a frame or an error
CameraResults == IF captured < MaxFrames THEN {"Ok", "Err"} ELSE {"Err"}

CaptureEnds == {"tx_capture", "rx_close_cap"}
DecodeEnds == {"rx_capture", "tx_decode", "rx_close_dec"}

\* main has returned or panicked: the process is gone, and its threads with it
ProcessAlive == main_pc \notin {"returned", "panicked"}

\* the thread's closure has returned and dropped what it captured
CaptureFinished == cap_pc = "exit" /\ CaptureEnds \cap live = {}
DecodeFinished == dec_pc = "exit" /\ DecodeEnds \cap live = {}

\* The pipeline runs on frames of one pixel: its steps do not look into a frame.
Init ==
    /\ WIDTH = 1 /\ HEIGHT = 1
    /\ cap_pc = "poll" /\ cap_frame = 0 /\ cap_exit = "none" /\ captured = 0
    /\ dec_pc = "poll" /\ dec_frame = 0 /\ dec_pixels = NoFrame /\ dec_exit = "none"
    /\ q_cap = <<>> /\ q_dec = <<>> /\ close_cap = 0 /\ close_dec = 0
    /\ live = CaptureEnds \cup DecodeEnds
    /\ main_pc = "top" /\ main_panic = "none" /\ curr = NoFrame
    /\ back_buffer = [i \in 1..BUFFER_SIZE |-> ZeroFrame(WIDTH * HEIGHT)]
    /\ diff_buf = Zeros(WIDTH * HEIGHT)
    /\ pushes = 0

\* ---- capture thread
\* CapPoll that takes the signal and goes on
CapPollIgnore ==
    /\ ProcessAlive /\ cap_pc = "poll"
    /\ close_cap' = IF close_cap > 0 THEN close_cap - 1 ELSE close_cap
    /\ cap_pc' = "capture"
    /\ UNCHANGED <<cap_exit, cap_frame, captured, decVars, q_cap, q_dec, close_dec, live,
                   mainVars, dimVars>>

\* while rx_close.try_recv().is_err()
CapPoll ==
    /\ ProcessAlive /\ cap_pc = "poll"
    /\ IF close_cap > 0
       THEN /\ close_cap' = close_cap - 1
            /\ cap_pc' = "exit" /\ cap_exit' = "cancelled"
       ELSE /\ cap_pc' = "capture"
            /\ UNCHANGED <<close_cap, cap_exit>>
    /\ UNCHANGED <<cap_frame, captured, decVars, q_cap, q_dec, close_dec, live, mainVars, dimVars>>

\* match cam.capture()
CapCapture ==
    /\ ProcessAlive /\ cap_pc = "capture"
    /\ \E res \in CameraResults :
         IF res = "Ok"
         THEN /\ captured' = captured + 1
              /\ cap_frame' = captured + 1
              /\ cap_pc' = "send"
              /\ UNCHANGED cap_exit
         ELSE /\ cap_pc' = "exit" /\ cap_exit' = "error"
              /\ UNCHANGED <<captured, cap_frame>>
    /\ UNCHANGED <<decVars, q_cap, q_dec, close_cap, close_dec, live, mainVars, dimVars>>

\* CapSend on a channel that takes a frame whatever it holds
CapSendUnbounded ==
    /\ ProcessAlive /\ cap_pc = "send"
    /\ IF "rx_capture" \notin live
       THEN /\ cap_pc' = "exit" /\ cap_exit' = "disconnected"
            /\ UNCHANGED q_cap
       ELSE /\ q_cap' = Append(q_cap, cap_frame)
            /\ cap_pc' = "poll"
            /\ UNCHANGED cap_exit
    /\ cap_frame' = 0
    /\ UNCHANGED <<captured, decVars, q_dec, close_cap, close_dec, live, mainVars, dimVars>>

\* if tx_capture.send(frame).is_err() { break }
CapSend ==
    /\ ProcessAlive /\ cap_pc = "send"
    /\ "rx_capture" \notin live \/ Len(q_cap) < QUEUE_CAP
    /\ IF "rx_capture" \notin live
       THEN /\ cap_pc' = "exit" /\ cap_exit' = "disconnected"
            /\ UNCHANGED q_cap
       ELSE /\ q_cap' = Append(q_cap, cap_frame)
            /\ cap_pc' = "poll"
            /\ UNCHANGED cap_exit
    /\ cap_frame' = 0
    /\ UNCHANGED <<captured, decVars, q_dec, close_cap, close_dec, live, mainVars, dimVars>>

\* the closure returns: tx_capture and rx_close are dropped, in no stated order
CapDrop ==
    /\ ProcessAlive /\ cap_pc = "exit"
    /\ \E e \in CaptureEnds \cap live :
         /\ live' = live \ {e}
         /\ close_cap' = IF e = "rx_close_cap" THEN 0 ELSE close_cap
    /\ UNCHANGED <<capVars, decVars, q_cap, q_dec, close_dec, mainVars, dimVars>>

\* ---- decode thread
\* while rx_close.try_recv().is_err()
DecPoll ==
    /\ ProcessAlive /\ dec_pc = "poll"
    /\ IF close_dec > 0
       THEN /\ close_dec' = close_dec - 1
            /\ dec_pc' = "exit" /\ dec_exit' = "cancelled"
       ELSE /\ dec_pc' = "recv"
            /\ UNCHANGED <<close_dec, dec_exit>>
    /\ UNCHANGED <<dec_frame, dec_pixels, capVars, q_cap, q_dec, close_cap, live, mainVars, dimVars>>

\* DecRecv that takes the frame sent last
DecRecvLast ==
    /\ ProcessAlive /\ dec_pc = "recv"
    /\ q_cap # <<>> \/ "tx_capture" \notin live
    /\ IF q_cap # <<>>
       THEN /\ dec_frame' = q_cap[Len(q_cap)]
            /\ q_cap' = SubSeq(q_cap, 1, Len(q_cap) - 1)
            /\ dec_pc' = "decode"
            /\ UNCHANGED dec_exit
       ELSE /\ dec_pc' = "exit" /\ dec_exit' = "disconnected"
            /\ UNCHANGED <<dec_frame, q_cap>>
    /\ UNCHANGED <<dec_pixels, capVars, q_dec, close_cap, close_dec, live, mainVars, dimVars>>

\* DecRecv that reports a gone sender before the frames still queued
DecRecvEager ==
    /\ ProcessAlive /\ dec_pc = "recv"
    /\ q_cap # <<>> \/ "tx_capture" \notin live
    /\ IF "tx_capture" \in live
       THEN /\ dec_frame' = Head(q_cap)
            /\ q_cap' = Tail(q_cap)
            /\ dec_pc' = "decode"
            /\ UNCHANGED dec_exit
       ELSE /\ dec_pc' = "exit" /\ dec_exit' = "disconnected"
            /\ UNCHANGED <<dec_frame, q_cap>>
    /\ UNCHANGED <<dec_pixels, capVars, q_dec, close_cap, close_dec, live, mainVars, dimVars>>

\* match rx_capture.recv()
DecRecv ==
    /\ ProcessAlive /\ dec_pc = "recv"
    /\ q_cap # <<>> \/ "tx_capture" \notin live
    /\ IF q_cap # <<>>
       THEN /\ dec_frame' = Head(q_cap)
            /\ q_cap' = Tail(q_cap)
            /\ dec_pc' = "decode"
            /\ UNCHANGED dec_exit
       ELSE /\ dec_pc' = "exit" /\ dec_exit' = "disconnected"
            /\ UNCHANGED <<dec_frame, q_cap>>
    /\ UNCHANGED <<dec_pixels, capVars, q_dec, close_cap, close_dec, live, mainVars, dimVars>>

\* decoder.decode().expect(..), the loop over the chunks, mem::replace
DecDecode ==
    /\ ProcessAlive /\ dec_pc = "decode"
    /\ \E res \in JpegDecode(dec_frame) :
         LET st == DecodeU32(res.pixels, WIDTH)
         IN  IF res.ok /\ ~st.oob
             THEN /\ dec_pixels' = [id |-> dec_frame, px |-> st.buf]
                  /\ dec_pc' = "send"
                  /\ UNCHANGED dec_exit
             ELSE /\ dec_pc' = "exit" /\ dec_exit' = "panic"
                  /\ UNCHANGED dec_pixels
    /\ dec_frame' = 0
    /\ UNCHANGED <<capVars, q_cap, q_dec, close_cap, close_dec, live, mainVars, dimVars>>

\* if tx_decode.send(pixels).is_err() { break }   (rx_dec lives as long as main)
DecSend ==
    /\ ProcessAlive /\ dec_pc = "send"
    /\ Len(q_dec) < QUEUE_CAP
    /\ q_dec' = Append(q_dec, dec_pixels)
    /\ dec_pixels' = NoFrame
    /\ dec_pc' = "poll"
    /\ UNCHANGED <<dec_frame, dec_exit, capVars, q_cap, close_cap, close_dec, live, mainVars, dimVars>>

\* the closure returns or unwinds: rx_capture, tx_decode and rx_close are dropped,
\* in no stated order; a dropped receiver discards what its channel holds
DecDrop ==
    /\ ProcessAlive /\ dec_pc = "exit"
    /\ \E e \in DecodeEnds \cap live :
         /\ live' = live \ {e}
         /\ q_cap' = IF e = "rx_capture" THEN <<>> ELSE q_cap
         /\ close_dec' = IF e = "rx_close_dec" THEN 0 ELSE close_dec
    /\ UNCHANGED <<capVars, decVars, q_dec, close_cap, mainVars, dimVars>>

\* ---- main
\* while window.is_open(), the Escape and F11 keys
WindowEvents == {"none", "closed", "escape", "f11"}

MainTop ==
    /\ main_pc = "top"
    /\ \E ev \in WindowEvents :
         main_pc' = CASE ev = "none" -> "recv"
                      [] ev = "f11" -> "window"
                      [] OTHER -> "close_cap"
    /\ UNCHANGED <<main_panic, curr, back_buffer, diff_buf, pushes, capVars, decVars,
                   q_cap, q_dec, close_cap, close_dec, live, dimVars>>

\* MainWindow that empties the channel from the decode thread
MainWindowFlush ==
    /\ main_pc = "window"
    /\ \E ok \in BOOLEAN :
         IF ok
         THEN main_pc' = "recv" /\ UNCHANGED main_panic
         ELSE main_pc' = "panicked" /\ main_panic' = "window"
    /\ q_dec' = <<>>
    /\ UNCHANGED <<curr, back_buffer, diff_buf, pushes, capVars, decVars,
                   q_cap, close_cap, close_dec, live, dimVars>>

\* window = Window::new(..).expect(..): the old window is dropped, a new one made
MainWindow ==
    /\ main_pc = "window"
    /\ \E ok \in BOOLEAN :
         IF ok
         THEN main_pc' = "recv" /\ UNCHANGED main_panic
         ELSE main_pc' = "panicked" /\ main_panic' = "window"
    /\ UNCHANGED <<curr, back_buffer, diff_buf, pushes, capVars, decVars,
                   q_cap, q_dec, close_cap, close_dec, live, dimVars>>

\* MainRecv that leaves the frame it takes in the channel
MainRecvPeek ==
    /\ main_pc = "recv"
    /\ q_dec # <<>> \/ "tx_decode" \notin live
    /\ IF q_dec # <<>>
       THEN /\ curr' = Head(q_dec)
            /\ main_pc' = "push"
       ELSE /\ main_pc' = "close_cap"
            /\ UNCHANGED curr
    /\ UNCHANGED <<main_panic, back_buffer, diff_buf, pushes, capVars, decVars,
                   q_cap, q_dec, close_cap, close_dec, live, dimVars>>

\* match rx_dec.recv()
MainRecv ==
    /\ main_pc = "recv"
    /\ q_dec # <<>> \/ "tx_decode" \notin live
    /\ IF q_dec # <<>>
       THEN /\ curr' = Head(q_dec)
            /\ q_dec' = Tail(q_dec)
            /\ main_pc' = "push"
       ELSE /\ main_pc' = "close_cap"
            /\ UNCHANGED <<curr, q_dec>>
    /\ UNCHANGED <<main_panic, back_buffer, diff_buf, pushes, capVars, decVars,
                   q_cap, close_cap, close_dec, live, dimVars>>

\* back_buffer.push_back(curr) and the pop_front
MainPush ==
    /\ main_pc = "push"
    /\ back_buffer' = PushBack(back_buffer, curr)
    /\ curr' = NoFrame
    /\ pushes' = pushes + 1
    /\ main_pc' = "diff"
    /\ UNCHANGED <<main_panic, diff_buf, capVars, decVars, q_cap, q_dec, close_cap,
                   close_dec, live, dimVars>>

\* MainDiff that also writes the difference over the newest frame
MainDiffInPlace ==
    /\ main_pc = "diff"
    /\ IF DiffOutOfBounds(diff_buf, back_buffer)
       THEN /\ main_pc' = "panicked" /\ main_panic' = "diff"
            /\ UNCHANGED <<diff_buf, back_buffer>>
       ELSE /\ diff_buf' = DiffBuf(diff_buf, back_buffer)
            /\ back_buffer' = [back_buffer EXCEPT ![Len(back_buffer)].px =
                                  DiffBuf(diff_buf, back_buffer)]
            /\ main_pc' = "update"
            /\ UNCHANGED main_panic
    /\ UNCHANGED <<curr, pushes, capVars, decVars, q_cap, q_dec, close_cap,
                   close_dec, live, dimVars>>

\* the lookups in back_buffer and diff_buf.par_iter_mut()..for_each
MainDiff ==
    /\ main_pc = "diff"
    /\ IF DiffOutOfBounds(diff_buf, back_buffer)
       THEN /\ main_pc' = "panicked" /\ main_panic' = "diff"
            /\ UNCHANGED diff_buf
       ELSE /\ diff_buf' = DiffBuf(diff_buf, back_buffer)
            /\ main_pc' = "update"
            /\ UNCHANGED main_panic
    /\ UNCHANGED <<curr, back_buffer, pushes, capVars, decVars, q_cap, q_dec, close_cap,
                   close_dec, live, dimVars>>

\* window.update_with_buffer(&diff_buf, WIDTH, HEIGHT)
MainUpdate ==
    /\ main_pc = "update"
    /\ \E ok \in BOOLEAN : main_pc' = IF ok THEN "top" ELSE "close_cap"
    /\ UNCHANGED <<main_panic, curr, back_buffer, diff_buf, pushes, capVars, decVars,
                   q_cap, q_dec, close_cap, close_dec, live, dimVars>>

\* tx_close_cap.send(()).expect(..)
MainCloseCap ==
    /\ main_pc = "close_cap"
    /\ "rx_close_cap" \notin live \/ close_cap < CLOSE_CAP
    /\ IF "rx_close_cap" \in live
       THEN /\ close_cap' = close_cap + 1
            /\ main_pc' = "close_dec"
            /\ UNCHANGED main_panic
       ELSE /\ main_pc' = "panicked" /\ main_panic' = "close_cap"
            /\ UNCHANGED close_cap
    /\ UNCHANGED <<curr, back_buffer, diff_buf, pushes, capVars, decVars, q_cap, q_dec,
                   close_dec, live, dimVars>>

\* tx_close_dec.send(()).expect(..)
MainCloseDec ==
    /\ main_pc = "close_dec"
    /\ "rx_close_dec" \notin live \/ close_dec < CLOSE_CAP
    /\ IF "rx_close_dec" \in live
       THEN /\ close_dec' = close_dec + 1
            /\ main_pc' = "join_cap"
            /\ UNCHANGED main_panic
       ELSE /\ main_pc' = "panicked" /\ main_panic' = "close_dec"
            /\ UNCHANGED close_dec
    /\ UNCHANGED <<curr, back_buffer, diff_buf, pushes, capVars, decVars, q_cap, q_dec,
                   close_cap, live, dimVars>>

\* cap_handle.join().expect(..): the capture closure has no panic of its own
MainJoinCap ==
    /\ main_pc = "join_cap"
    /\ CaptureFinished
    /\ main_pc' = "join_dec"
    /\ UNCHANGED <<main_panic, curr, back_buffer, diff_buf, pushes, capVars, decVars,
                   q_cap, q_dec, close_cap, close_dec, live, dimVars>>

\* dec_handle.join().expect(..): Err when the decode closure panicked
MainJoinDec ==
    /\ main_pc = "join_dec"
    /\ DecodeFinished
    /\ IF dec_exit = "panic"
       THEN main_pc' = "panicked" /\ main_panic' = "join_dec"
       ELSE main_pc' = "returned" /\ UNCHANGED main_panic
    /\ UNCHANGED <<curr, back_buffer, diff_buf, pushes, capVars, decVars, q_cap, q_dec,
                   close_cap, close_dec, live, dimVars>>

CaptureThread == CapPoll \/ CapCapture \/ CapSend \/ CapDrop
DecodeThread == DecPoll \/ DecRecv \/ DecDecode \/ DecSend \/ DecDrop
Main ==
    \/ MainTop \/ MainWindow \/ MainRecv \/ MainPush \/ MainDiff \/ MainUpdate
    \/ MainCloseCap \/ MainCloseDec \/ MainJoinCap \/ MainJoinDec

Next == CaptureThread \/ DecodeThread \/ Main

Spec == Init /\ [][Next]_vars

\* Every thread that can take a step eventually takes one, and a camera capture
\* in flight eventually returns.
FairSpec == Spec /\ WF_vars(Next)

\* ------------------------------------------------------------ the render loop alone
\* Frame dimensions the render loop and the decode step are run on.
MaxWidth == 3
MaxHeight == 3
\* Frames the render loop is given.
MaxRender == 12

\* tx_decode.send(pixels), seen from the render loop: the next frame arrives
Feed ==
    /\ main_pc \notin {"close_cap", "panicked"}
    /\ captured < MaxRender
    /\ Len(q_dec) < QUEUE_CAP
    /\ captured' = captured + 1
    /\ q_dec' = Append(q_dec, DecodedFrame(captured + 1, WIDTH))
    /\ UNCHANGED <<cap_pc, cap_frame, cap_exit, decVars, q_cap, close_cap, close_dec, live,
                   mainVars, dimVars>>

\* RenderInit with a history that starts empty
RenderInitEmpty ==
    /\ WIDTH \in 1..MaxWidth /\ HEIGHT \in 1..MaxHeight
    /\ cap_pc = "capture" /\ cap_frame = 0 /\ cap_exit = "none" /\ captured = 0
    /\ dec_pc = "send" /\ dec_frame = 0 /\ dec_pixels = NoFrame /\ dec_exit = "none"
    /\ q_cap = <<>> /\ q_dec = <<>> /\ close_cap = 0 /\ close_dec = 0
    /\ live = CaptureEnds \cup DecodeEnds
    /\ main_pc = "top" /\ main_panic = "none" /\ curr = NoFrame /\ pushes = 0
    /\ back_buffer = <<>>
    /\ diff_buf = Zeros(WIDTH * HEIGHT)

\* main as it enters the render loop, for each frame size; the two threads are
\* stood for by Feed.
RenderInit ==
    /\ WIDTH \in 1..MaxWidth /\ HEIGHT \in 1..MaxHeight
    /\ cap_pc = "capture" /\ cap_frame = 0 /\ cap_exit = "none" /\ captured = 0
    /\ dec_pc = "send" /\ dec_frame = 0 /\ dec_pixels = NoFrame /\ dec_exit = "none"
    /\ q_cap = <<>> /\ q_dec = <<>> /\ close_cap = 0 /\ close_dec = 0
    /\ live = CaptureEnds \cup DecodeEnds
    /\ main_pc = "top" /\ main_panic = "none" /\ curr = NoFrame /\ pushes = 0
    /\ back_buffer = [i \in 1..BUFFER_SIZE |-> ZeroFrame(WIDTH * HEIGHT)]
    /\ diff_buf = Zeros(WIDTH * HEIGHT)

RenderNext == Feed \/ MainTop \/ MainWindow \/ MainRecv \/ MainPush \/ MainDiff \/ MainUpdate

RenderSpec == RenderInit /\ [][RenderNext]_vars

\* The render loop on a history of any length from 0 to BUFFER_SIZE, with 1 to
\* QUEUE_CAP frames waiting in the channel and the decode thread gone.
RingInit ==
    /\ WIDTH = 1 /\ HEIGHT = 1
    /\ cap_pc = "exit" /\ cap_frame = 0 /\ cap_exit = "error"
    /\ captured \in 1..(BUFFER_SIZE + QUEUE_CAP)
    /\ dec_pc = "exit" /\ dec_frame = 0 /\ dec_pixels = NoFrame /\ dec_exit = "disconnected"
    /\ q_cap = <<>> /\ close_cap = 0 /\ close_dec = 0 /\ live = {}
    /\ \E n \in 0..BUFFER_SIZE :
         /\ n < captured /\ captured - n <= QUEUE_CAP
         /\ back_buffer = [i \in 1..n |-> DecodedFrame(i, WIDTH)]
         /\ q_dec = [i \in 1..(captured - n) |-> DecodedFrame(n + i, WIDTH)]
         /\ pushes = n
    /\ main_pc = "recv" /\ main_panic = "none" /\ curr = NoFrame
    /\ diff_buf = Zeros(1)

RingNext == MainTop \/ MainWindow \/ MainRecv \/ MainPush \/ MainDiff \/ MainUpdate

RingSpec == RingInit /\ [][RingNext]_vars

\* ------------------------------------------------------------ the diff alone
\* 8-bit channel values and the pixels made of them
Channels == {0, 1, 50, 200, 255}
Pixels == {Pack(r, g, b) : r \in Channels, g \in Channels, b \in Channels}
LagPixels == {Pack(0, 0, 0), Pack(1, 50, 200), Pack(50, 200, 255), Pack(200, 255, 1),
              Pack(255, 1, 50)}

\* The diff step on a full history whose newest frame and three lagged frames
\* hold any of the pixels above.
DiffInit ==
    /\ WIDTH = 1 /\ HEIGHT = 1
    /\ cap_pc = "capture" /\ cap_frame = 0 /\ cap_exit = "none" /\ captured = BUFFER_SIZE
    /\ dec_pc = "recv" /\ dec_frame = 0 /\ dec_pixels = NoFrame /\ dec_exit = "none"
    /\ q_cap = <<>> /\ q_dec = <<>> /\ close_cap = 0 /\ close_dec = 0
    /\ live = CaptureEnds \cup DecodeEnds
    /\ main_pc = "diff" /\ main_panic = "none" /\ curr = NoFrame /\ pushes = BUFFER_SIZE
    /\ \E p \in Pixels, pr \in LagPixels, pg \in LagPixels, pb \in LagPixels :
         back_buffer = [i \in 1..BUFFER_SIZE |->
             [id |-> i,
              px |-> << CASE i = IndexNewest(BUFFER_SIZE) + 1 -> p
                          [] i = IndexR(BUFFER_SIZE) + 1 -> pr
                          [] i = IndexG(BUFFER_SIZE) + 1 -> pg
                          [] i = IndexB(BUFFER_SIZE) + 1 -> pb
                          [] OTHER -> 0 >>]]
    /\ diff_buf = Zeros(1)

DiffNext == MainDiff \/ MainUpdate

DiffSpec == DiffInit /\ [][DiffNext]_vars

\* ------------------------------------------------------------ the decode alone
\* Captures the decode step is run on.
MaxImages == 4

\* The decode thread holding one compressed frame, for each frame size.
DecodeInit ==
    /\ WIDTH \in 1..MaxWidth /\ HEIGHT \in 1..MaxHeight
    /\ cap_pc = "capture" /\ cap_frame = 0 /\ cap_exit = "none" /\ captured = MaxImages
    /\ dec_pc = "decode" /\ dec_frame \in 1..MaxImages /\ dec_pixels = NoFrame
    /\ dec_exit = "none"
    /\ q_cap = <<>> /\ q_dec = <<>> /\ close_cap = 0 /\ close_dec = 0
    /\ live = CaptureEnds \cup DecodeEnds
    /\ main_pc = "recv" /\ main_panic = "none" /\ curr = NoFrame /\ pushes = 0
    /\ back_buffer = [i \in 1..BUFFER_SIZE |-> ZeroFrame(WIDTH * HEIGHT)]
    /\ diff_buf = Zeros(WIDTH * HEIGHT)

DecodeNext == DecDecode \/ DecSend

DecodeSpec == DecodeInit /\ [][DecodeNext]_vars

\* ------------------------------------------------------------ a JPEG of another size
\* The decode thread holding a compressed frame whose image is not of
\* WIDTH x HEIGHT pixels, and main waiting for its first frame.
MalformedInit ==
    /\ WIDTH \in 1..MaxWidth /\ HEIGHT \in 1..MaxHeight
    /\ cap_pc = "capture" /\ cap_frame = 0 /\ cap_exit = "none" /\ captured = 1
    /\ dec_pc = "decode" /\ dec_pixels = NoFrame /\ dec_exit = "none"
    /\ \E kind \in 1..4 :
         /\ dec_frame = kind * SizeStride + 1
         /\ ImageLen(kind * SizeStride + 1) >= 1
    /\ q_cap = <<>> /\ q_dec = <<>> /\ close_cap = 0 /\ close_dec = 0
    /\ live = CaptureEnds \cup DecodeEnds
    /\ main_pc = "recv" /\ main_panic = "none" /\ curr = NoFrame /\ pushes = 0
    /\ back_buffer = [i \in 1..BUFFER_SIZE |-> ZeroFrame(WIDTH * HEIGHT)]
    /\ diff_buf = Zeros(WIDTH * HEIGHT)

MalformedNext == DecDecode \/ DecSend \/ MainRecv \/ MainPush \/ MainDiff \/ MainUpdate

MalformedSpec == MalformedInit /\ [][MalformedNext]_vars

\* ------------------------------------------------------------ properties
InRunning == main_pc \in {"top", "window", "recv", "push", "diff", "update"}

\* C1: once main has sent both cancellation signals and waits in the first join,
\* both joins eventually complete (main returns, or the last expect fails), whatever
\* the two channels hold and wherever the two threads are.
C1_ShutdownNeverHangs == (main_pc = "join_cap") ~> (main_pc \in {"returned", "panicked"})

\* C2: when the capture thread has already returned as main starts the shutdown
\* sequence, the first step of the sequence, the send on tx_close_cap, does not panic.
C2_DrainingClean ==
    [][(main_pc = "close_cap" /\ CaptureFinished) => main_pc' # "panicked"]_vars

\* C3: each hand-off channel holds at most QUEUE_CAP frames; a sender at a full
\* channel whose receiver lives stays in its send, holding its frame; and a channel
\* changes only by a send at its back, a receive at its front, or its receiver's drop.
C3_QueueStep(q, qn, rx) ==
    \/ qn = q
    \/ Len(q) < QUEUE_CAP /\ Len(qn) = Len(q) + 1 /\ SubSeq(qn, 1, Len(q)) = q
    \/ q # <<>> /\ qn = Tail(q)
    \/ rx \in live /\ rx \notin live' /\ qn = <<>>

C3_Backpressure ==
    /\ [](Len(q_cap) <= QUEUE_CAP /\ Len(q_dec) <= QUEUE_CAP)
    /\ [][/\ (cap_pc = "send" /\ Len(q_cap) = QUEUE_CAP /\ "rx_capture" \in live)
               => (cap_pc' = "send" /\ cap_frame' = cap_frame)
          /\ (dec_pc = "send" /\ Len(q_dec) = QUEUE_CAP)
               => (dec_pc' = "send" /\ dec_pixels' = dec_pixels)
          /\ C3_QueueStep(q_cap, q_cap', "rx_capture")
          /\ C3_QueueStep(q_dec, q_dec', "rx_dec")]_vars

\* Both channels are full, both senders wait in their send, the render loop runs.
C3_Witness ==
    /\ Len(q_cap) = QUEUE_CAP /\ Len(q_dec) = QUEUE_CAP
    /\ cap_pc = "send" /\ dec_pc = "send" /\ InRunning

\* C4: after a capture error the capture thread neither captures nor sends again;
\* the decode thread leaves on the disconnected channel only once it holds no more
\* frame; the render loop leaves on the disconnected channel only once it holds no
\* more frame; and the render loop does eventually leave.
C4_CaptureErrorCascade ==
    /\ [][/\ cap_exit = "error"
               => (cap_pc' = "exit" /\ captured' = captured /\ Len(q_cap') <= Len(q_cap))
          /\ (dec_exit = "none" /\ dec_exit' = "disconnected")
               => (q_cap = <<>> /\ "tx_capture" \notin live)
          /\ (main_pc = "recv" /\ main_pc' = "close_cap")
               => (q_dec = <<>> /\ "tx_decode" \notin live)]_vars
    /\ (cap_exit = "error") ~> ~InRunning

\* The cascade has run through: capture failed, decode left on the disconnect after
\* frames had passed, and the render loop has left with frames pushed.
C4_Witness ==
    /\ cap_exit = "error" /\ dec_exit = "disconnected"
    /\ main_pc = "close_cap" /\ "tx_decode" \notin live /\ pushes >= 2

\* C5: after a decode error main sends both cancellation signals, joins both
\* threads and returns, none of the four steps panicking.
C5_DecodeErrorOrderly ==
    dec_exit = "panic" => main_panic \notin {"close_cap", "close_dec", "join_cap", "join_dec"}

Min(a, b) == IF a <= b THEN a ELSE b
Max(a, b) == IF a >= b THEN a ELSE b

\* C6 as stated: after m completed pushes the ring's length is min(m, BUFFER_SIZE).
C6_RingLengthMin == Len(back_buffer) = Min(pushes, BUFFER_SIZE)

\* C6 amended: the ring starts with BUFFER_SIZE all-zero frames, so its length is
\* BUFFER_SIZE after any number m of pushes; it holds the min(m, BUFFER_SIZE) frames
\* pushed last, in push order, behind all-zero frames; every push evicts the front.
C6_RingLength ==
    /\ [](/\ Len(back_buffer) = BUFFER_SIZE
          /\ \A i \in 1..BUFFER_SIZE :
                back_buffer[i].id = Max(pushes - BUFFER_SIZE + i, 0))
    /\ [][/\ back_buffer' # back_buffer => pushes' = pushes + 1
          /\ pushes' # pushes => back_buffer' = Append(Tail(back_buffer), curr)]_vars

\* More frames than the ring holds have been pushed: pushed frames were evicted.
C6_Witness == pushes > BUFFER_SIZE /\ main_pc = "diff" /\ back_buffer[1].id = pushes - 9

\* C7: after a push the newest frame is the one just received from q_dec; the lag
\* frames sit at index max(length - 1 - k, 0) for k = 1, 5, 9, within
\* [0, length - 1] for every length >= 1, at index 0 when k >= length; and
\* BUFFER_SIZE is 1 + the largest lag.
C7_LookbackIndexing ==
    /\ [](main_pc = "diff" =>
            LET length == Len(back_buffer)
                lags == <<1, 1 + CHANNEL_OFFSET, 1 + 2 * CHANNEL_OFFSET>>
                index == <<IndexR(length), IndexG(length), IndexB(length)>>
            IN  /\ length >= 1
                /\ lags = <<1, 5, 9>> /\ BUFFER_SIZE = 1 + lags[3]
                /\ IndexNewest(length) = length - 1
                /\ \A c \in 1..3 :
                      /\ index[c] = Max(length - 1 - lags[c], 0)
                      /\ index[c] \in 0..(length - 1)
                      /\ lags[c] >= length => index[c] = 0)
    /\ [][/\ (main_pc = "recv" /\ main_pc' = "push") => curr' = Head(q_dec)
          /\ (main_pc = "push" /\ main_pc' = "diff") =>
                At(back_buffer', IndexNewest(Len(back_buffer'))) = curr]_vars

\* A ring of three frames: the lag 1 is inside it, the lags 5 and 9 clamp.
C7_Witness == main_pc = "diff" /\ Len(back_buffer) = 3 /\ back_buffer[3].id = 3

C8_Lag(k) == At(back_buffer, SaturatingSub(Len(back_buffer), 1 + k))

\* C8 as stated: with fewer than k + 1 frames pushed the lag k gives the first frame
\* pushed; after one push all three lag frames are that frame and the difference
\* image is all zero.
C8_StartupClampsToPushed ==
    (main_pc = "update" /\ pushes >= 1) =>
        /\ \A k \in {1, 1 + CHANNEL_OFFSET, 1 + 2 * CHANNEL_OFFSET} :
              pushes < k + 1 => C8_Lag(k).id = 1
        /\ pushes = 1 =>
              /\ At(back_buffer, IndexR(Len(back_buffer))) = C8_Lag(0)
              /\ At(back_buffer, IndexG(Len(back_buffer))) = C8_Lag(0)
              /\ At(back_buffer, IndexB(Len(back_buffer))) = C8_Lag(0)
              /\ \A i \in 1..Len(diff_buf) : diff_buf[i] = 0

\* C8 amended: with fewer than k + 1 frames pushed the lag k gives one of the
\* all-zero frames the ring starts with, otherwise the frame pushed k pushes ago;
\* after one push of F the three lag frames are all-zero frames and the difference
\* image is F itself.
C8_StartupTransient ==
    (main_pc = "update" /\ pushes >= 1) =>
        /\ At(back_buffer, IndexR(Len(back_buffer))) = C8_Lag(1)
        /\ At(back_buffer, IndexG(Len(back_buffer))) = C8_Lag(1 + CHANNEL_OFFSET)
        /\ At(back_buffer, IndexB(Len(back_buffer))) = C8_Lag(1 + 2 * CHANNEL_OFFSET)
        /\ \A k \in {1, 1 + CHANNEL_OFFSET, 1 + 2 * CHANNEL_OFFSET} :
              IF pushes < k + 1
              THEN C8_Lag(k) = ZeroFrame(WIDTH * HEIGHT)
              ELSE C8_Lag(k).id = pushes - k
        /\ pushes = 1 =>
              \A i \in 1..Len(diff_buf) : diff_buf[i] = C8_Lag(0).px[i]

\* The first difference image is on display and is not all zero.
C8_Witness ==
    /\ main_pc = "update" /\ pushes = 1 /\ WIDTH * HEIGHT > 1
    /\ \E i \in 1..Len(diff_buf) : diff_buf[i] # 0

C9_R(x) == (x \div 65536) % 256
C9_G(x) == (x \div 256) % 256
C9_B(x) == x % 256

\* C9: each channel of a diff pixel is max(newest - lagged, 0), red against the
\* frame one push back, green five, blue nine; every channel is in 0..255 and the
\* pixel is dr * 2^16 + dg * 2^8 + db, below 2^24.
C9_SaturatingDifference ==
    main_pc = "update" =>
        \A i \in 1..Len(diff_buf) :
            LET p == back_buffer[BUFFER_SIZE].px[i]
                pr == back_buffer[BUFFER_SIZE - 1].px[i]
                pg == back_buffer[BUFFER_SIZE - 5].px[i]
                pb == back_buffer[BUFFER_SIZE - 9].px[i]
                dr == Max(C9_R(p) - C9_R(pr), 0)
                dg == Max(C9_G(p) - C9_G(pg), 0)
                db == Max(C9_B(p) - C9_B(pb), 0)
            IN  /\ dr \in 0..255 /\ dg \in 0..255 /\ db \in 0..255
                /\ diff_buf[i] = dr * 65536 + dg * 256 + db
                /\ diff_buf[i] \in 0..16777215

\* 50 against 200 in red gives 0, 200 against 50 in green gives 150.
C9_Witness ==
    /\ main_pc = "update"
    /\ C9_R(back_buffer[BUFFER_SIZE].px[1]) = 50
    /\ C9_R(back_buffer[BUFFER_SIZE - 1].px[1]) = 200
    /\ C9_G(back_buffer[BUFFER_SIZE].px[1]) = 200
    /\ C9_G(back_buffer[BUFFER_SIZE - 5].px[1]) = 50
    /\ diff_buf[1] \div 256 = 150

\* C10: every buffer the decode thread sends for an image of WIDTH * HEIGHT pixels
\* has WIDTH * HEIGHT packed pixels.
C10_DecodedFrameSize ==
    \A i \in 1..Len(q_dec) : Len(q_dec[i].px) = WIDTH * HEIGHT

\* C11: in every frame the decode thread sends, the source pixel idx of the image
\* lands at one destination of 0..WIDTH*HEIGHT-1, in its own row, no two source
\* pixels at the same destination, the destination holding pack(r, g, b) of that
\* pixel, and every slot of the frame is the destination of a source pixel.
C11_ReindexBijection ==
    \A n \in 1..Len(q_dec) :
        LET pixels == JpegPixels(q_dec[n].id)
            src == 0..(NumChunks(pixels) - 1)
            dst == 0..(WIDTH * HEIGHT - 1)
            px == q_dec[n].px
        IN  /\ \A idx \in src :
                  /\ DecodeIndex(idx, WIDTH) \in dst
                  /\ DecodeIndex(idx, WIDTH) \div WIDTH = idx \div WIDTH
                  /\ px[DecodeIndex(idx, WIDTH) + 1] =
                        Chunk(pixels, idx)[1] * 65536 + Chunk(pixels, idx)[2] * 256
                            + Chunk(pixels, idx)[3]
            /\ \A i, j \in src : DecodeIndex(i, WIDTH) = DecodeIndex(j, WIDTH) => i = j
            /\ \A d \in 0..(Len(px) - 1) : \E idx \in src : DecodeIndex(idx, WIDTH) = d

C12_Positive(ids) == SelectSeq(ids, LAMBDA x : x > 0)

\* the captures held anywhere, from the oldest place to the newest
C12_Decoded ==
    C12_Positive([i \in 1..Len(back_buffer) |-> back_buffer[i].id] \o <<curr.id>>
                 \o [i \in 1..Len(q_dec) |-> q_dec[i].id] \o <<dec_pixels.id>>)
C12_Places == C12_Decoded \o C12_Positive(<<dec_frame>> \o q_cap \o <<cap_frame>>)

\* C12: every capture is in at most one place (the capture thread's hands, q_cap,
\* the decode thread's hands, q_dec, main's hands or the history); a compressed
\* frame is consumed by its decoding, which yields a frame not decoded before; and
\* every frame in q_dec is the complete decoding of its capture.
C12_SingleOwnership ==
    /\ [](LET places == C12_Places
          IN  /\ \A i \in 1..Len(places) : \A j \in 1..(i - 1) : places[i] # places[j]
              /\ \A i \in 1..Len(places) : places[i] \in 1..captured
              /\ \A i \in 1..Len(q_dec) : q_dec[i] = DecodedFrame(q_dec[i].id, WIDTH))
    /\ [][(dec_pixels' # dec_pixels /\ dec_pixels' # NoFrame) =>
             /\ dec_pc = "decode" /\ dec_pixels'.id = dec_frame /\ dec_frame' = 0
             /\ dec_pixels' = DecodedFrame(dec_frame, WIDTH)
             /\ LET decoded == C12_Decoded
                IN  \A i \in 1..Len(decoded) : decoded[i] < dec_frame]_vars

\* A capture in every place at once.
C12_Witness ==
    /\ cap_frame > 0 /\ q_cap # <<>> /\ dec_pixels # NoFrame /\ q_dec # <<>>
    /\ curr # NoFrame /\ pushes >= 1

\* C13: when the render loop has ended with neither thread having failed, main
\* does not terminate before both threads have returned; it sends one signal to the
\* capture thread and then one to the decode thread, each channel never holding
\* more than its one slot.
C13_ShutdownOrdering ==
    /\ (/\ main_pc \in {"returned", "panicked"} /\ main_panic \notin {"window", "diff"}
        /\ cap_exit # "error" /\ dec_exit # "panic")
          => (CaptureFinished /\ DecodeFinished)
    /\ close_cap <= CLOSE_CAP /\ close_dec <= CLOSE_CAP
    /\ main_pc = "close_cap" => (close_cap = 0 /\ close_dec = 0)
    /\ main_pc = "close_dec" => close_dec = 0

C14_IsPrefix(q, qn) == Len(q) <= Len(qn) /\ SubSeq(qn, 1, Len(q)) = q

\* C14: the step of main that replaces the window changes neither channel, nor the
\* history, nor diff_buf, nor which channel ends are alive; while main replaces the
\* window the decode thread can send whenever q_dec has a free slot; from the
\* replacement to main's next receive q_dec only grows at its back, and that
\* receive takes its front.
C14_DisplayTurnover ==
    /\ []((main_pc = "window" /\ dec_pc = "send" /\ Len(q_dec) < QUEUE_CAP)
             => ENABLED DecSend)
    /\ [][/\ (main_pc = "window" /\ main_pc' # "window") =>
                /\ q_cap' = q_cap /\ q_dec' = q_dec /\ live' = live
                /\ back_buffer' = back_buffer /\ diff_buf' = diff_buf /\ curr' = curr
          /\ (main_pc \in {"window", "recv"} /\ main_pc' \in {"window", "recv"}) =>
                C14_IsPrefix(q_dec, q_dec')
          /\ (main_pc = "recv" /\ main_pc' = "push") =>
                (curr' = Head(q_dec) /\ q_dec' = Tail(q_dec))]_vars

\* The window is being replaced with frames waiting and the decode thread sending.
C14_Witness ==
    /\ main_pc = "window" /\ pushes >= 1
    /\ q_dec # <<>> /\ Len(q_dec) < QUEUE_CAP /\ dec_pc = "send"

C15_WellFormed(f) == f.id > 0 => ImageLen(f.id) = WIDTH * HEIGHT

\* C15: no frame made from an image whose pixel count is not WIDTH * HEIGHT is sent
\* by the decode thread, received by main, pushed into the history or read by the
\* diff.
C15_MalformedFrameFatal ==
    /\ \A i \in 1..Len(q_dec) : C15_WellFormed(q_dec[i])
    /\ C15_WellFormed(curr)
    /\ \A i \in 1..Len(back_buffer) : C15_WellFormed(back_buffer[i])
    /\ main_panic # "diff"

\* C16: the capture thread comes to cam.capture() only from a poll that found no
\* signal and makes one call per poll; the decode thread comes to rx_capture.recv()
\* only from a poll that found no signal and takes one frame per poll; a poll that
\* takes the signal ends the loop; and a thread that left on its signal captures,
\* receives, decodes and sends nothing more.
C16_PollingOrder ==
    [][/\ (cap_pc' = "capture" /\ cap_pc # "capture") => (cap_pc = "poll" /\ close_cap = 0)
       /\ (captured' # captured \/ (cap_exit' = "error" /\ cap_exit = "none")) =>
             (cap_pc = "capture" /\ cap_pc' # "capture")
       /\ (dec_pc' = "recv" /\ dec_pc # "recv") => (dec_pc = "poll" /\ close_dec = 0)
       /\ (dec_frame' # dec_frame /\ dec_frame' > 0) => (dec_pc = "recv" /\ dec_pc' = "decode")
       /\ (close_cap' < close_cap /\ "rx_close_cap" \in live') =>
             (cap_pc = "poll" /\ cap_exit' = "cancelled")
       /\ (close_dec' < close_dec /\ "rx_close_dec" \in live') =>
             (dec_pc = "poll" /\ dec_exit' = "cancelled")
       /\ cap_exit = "cancelled" =>
             /\ cap_pc' = "exit" /\ captured' = captured /\ cap_frame' = cap_frame
             /\ Len(q_cap') <= Len(q_cap)
       /\ dec_exit = "cancelled" =>
             /\ dec_pc' = "exit" /\ dec_frame' = dec_frame /\ dec_pixels' = dec_pixels
             /\ Len(q_dec') <= Len(q_dec)
             /\ q_cap' = <<>> \/ C14_IsPrefix(q_cap, q_cap')]_vars

\* Both threads have left on their signal after frames went through.
C16_Witness == cap_exit = "cancelled" /\ dec_exit = "cancelled" /\ pushes >= 1

\* C17: the diff step changes diff_buf and no frame of the history; the history
\* changes only in the push step, by the received frame added at its back, with or
\* without its front removed, every retained frame as it was; and diff_buf always
\* has WIDTH * HEIGHT pixels.
C17_FramesImmutable ==
    /\ [](Len(diff_buf) = WIDTH * HEIGHT)
    /\ [][/\ (main_pc = "diff" /\ main_pc' # "diff") =>
                (back_buffer' = back_buffer /\ curr' = curr /\ q_dec' = q_dec)
          /\ diff_buf' # diff_buf => (main_pc = "diff" /\ main_pc' = "update")
          /\ back_buffer' # back_buffer =>
                /\ main_pc = "push" /\ main_pc' = "diff"
                /\ back_buffer' \in {Append(back_buffer, curr), Append(Tail(back_buffer), curr)}
                /\ diff_buf' = diff_buf]_vars

\* A difference of two camera frames is on display.
C17_Witness ==
    /\ main_pc = "update" /\ pushes >= 2
    /\ \E i \in 1..Len(diff_buf) : diff_buf[i] # 0
    /\ back_buffer[BUFFER_SIZE] = DecodedFrame(pushes, WIDTH)

\* C18: the n-th frame main pushes is the n-th capture, so the frames pushed so far
\* are the captures 1..pushes, a prefix of the captures 1..captured; and the
\* captures still on their way are in capture order from the history to the camera.
C18_EndToEndFifo ==
    /\ [](/\ pushes <= captured
          /\ \A i \in 1..Len(back_buffer) :
                back_buffer[i].id = Max(pushes - Len(back_buffer) + i, 0)
          /\ LET places == C12_Places
             IN  \A i \in 2..Len(places) : places[i - 1] < places[i])
    /\ [][pushes' # pushes =>
             /\ pushes' = pushes + 1 /\ curr.id = pushes + 1
             /\ back_buffer'[Len(back_buffer')] = curr]_vars

\* Frames pushed, one in main's hands, others in both channels.
C18_Witness ==
    /\ pushes >= 3 /\ main_pc = "push" /\ curr.id = pushes + 1
    /\ q_dec # <<>> /\ q_cap # <<>>

\* C19: the history starts with BUFFER_SIZE all-zero frames; wherever the diff reads
\* it its length is BUFFER_SIZE and the lag indexes are length - 2, length - 6 and
\* length - 10, none of them clamped; while at most 1, 5, 9 frames have been
\* received the red, green, blue lag frame is all zero and that channel of the
\* difference is the newest frame's channel.
C19_PrefilledRing ==
    LET length == Len(back_buffer)
        zero == ZeroFrame(WIDTH * HEIGHT)
        newest == At(back_buffer, IndexNewest(length)).px
    IN  /\ pushes = 0 => back_buffer = [i \in 1..BUFFER_SIZE |-> zero]
        /\ main_pc \in {"diff", "update"} =>
              /\ length = BUFFER_SIZE /\ BUFFER_SIZE = 10
              /\ length >= 10
              /\ IndexR(length) = length - 2
              /\ IndexG(length) = length - 6
              /\ IndexB(length) = length - 10
        /\ main_pc = "update" =>
              /\ pushes <= 1 =>
                    /\ At(back_buffer, IndexR(length)) = zero
                    /\ \A i \in 1..Len(diff_buf) : C9_R(diff_buf[i]) = C9_R(newest[i])
              /\ pushes <= 5 =>
                    /\ At(back_buffer, IndexG(length)) = zero
                    /\ \A i \in 1..Len(diff_buf) : C9_G(diff_buf[i]) = C9_G(newest[i])
              /\ pushes <= 9 =>
                    /\ At(back_buffer, IndexB(length)) = zero
                    /\ \A i \in 1..Len(diff_buf) : C9_B(diff_buf[i]) = C9_B(newest[i])

\* Five frames received: the red lag is a camera frame, green and blue are zero.
C19_Witness ==
    /\ main_pc = "update" /\ pushes = 5 /\ WIDTH * HEIGHT > 1
    /\ At(back_buffer, IndexR(Len(back_buffer))).id = 4
    /\ At(back_buffer, IndexG(Len(back_buffer))).id = 0
    /\ \E i \in 1..Len(diff_buf) : C9_G(diff_buf[i]) # 0
====
